---- MODULE Spec2Model ----
(***************************************************************************)
(* Model of the scheduling engine of newgenerator.py:                      *)
(* generate_college_timetable_with_sections and its helpers                *)
(* get_time_slots, apply_teacher_conflict_constraint and                   *)
(* apply_section_constraint.  One call of the engine is one behaviour: the *)
(* initial state holds the arguments of the call, each action is one phase *)
(* of the function body, and the final state holds the returned value.     *)
(* The generate handler of main wraps such calls in a session: it starts a *)
(* call on the session's data and stores what the call returns.            *)
(* The CP-SAT solver is a library outside the repository; solver.Solve is  *)
(* modelled by its contract: it returns any assignment that satisfies the  *)
(* posted constraints, INFEASIBLE when there is none, or UNKNOWN when the  *)
(* time limit ends the search first.                                       *)
(***************************************************************************)
EXTENDS Integers, Sequences, FiniteSets, TLC

\* ------------------------------------------------------------------ bounds
\* Largest number of entries of the `courses` argument.
MaxCourses == 2
\* Largest total_hours of the first working day.
MaxHours == 2

\* ------------------------------------------------------- program constants
LUNCH_HOUR == 12
DEFAULT_START_HR == 9
DEFAULT_END_HR == 17
FREE_START_HR == 0
FREE_END_HR == 24
\* The limits of the working-day form: start hour and total hours of a day.
MIN_START_HR == 6
MAX_START_HR == 20
MAX_TOTAL_HOURS == 12

\* The years the engine pads and reports, in the order of its loops.
YearList == <<"Year1", "Year2", "Year3", "Year4">>
\* The days every section bucket of the response holds (already lower case).
ResponseDays ==
    {"monday", "tuesday", "wednesday", "thursday", "friday", "saturday", "sunday"}
\* sections.get(year, {'A': {}}): one section "A" whose record has no room.
DefaultYearSections == << [name |-> "A", room |-> ""] >>

\* ------------------------------------------------------------ small helpers
Range(f) == {f[i] : i \in DOMAIN f}
\* 0-based access to a Python list held as a sequence.
At(seq, i) == seq[i + 1]
Min(S) == CHOOSE x \in S : \A y \in S : x <= y
Max(S) == CHOOSE x \in S : \A y \in S : x >= y

RECURSIVE SumSeq(_)
SumSeq(s) == IF s = <<>> THEN 0 ELSE Head(s) + SumSeq(Tail(s))

RECURSIVE Flatten(_)
Flatten(ss) == IF ss = <<>> THEN <<>> ELSE Head(ss) \o Flatten(Tail(ss))

\* The prefix-closed sequences over S of length at most n.
RECURSIVE SeqsUpTo(_, _)
SeqsUpTo(S, n) ==
    IF n = 0 THEN {<<>>}
    ELSE LET shorter == SeqsUpTo(S, n - 1)
         IN  shorter \cup {Append(q, x) : q \in {r \in shorter : Len(r) = n - 1}, x \in S}

\* ------------------------------------------------------------------- state
VARIABLES
    working_days,       \* constraints["working_days"]
    courses,            \* the courses argument
    teachers,           \* the teachers argument: name -> window
    sections,           \* the sections argument: year -> list of sections
    allow_free,         \* the allow_free argument
    pc,                 \* position in the function body
    slot_names,         \* get_time_slots: slot_names
    slot_time,          \* get_time_slots: slot_time (index -> clock hour)
    slot_to_day,        \* get_time_slots: slot_to_day (slot name -> day)
    processed_courses,  \* processed_courses, idle courses included
    occ_metadata,       \* occ_metadata: one record per occurrence
    start_at,           \* the keys (occ_id, s) of the start_at dictionary
    model,              \* the constraints added to the CP-SAT model
    status,             \* what solver.Solve returned
    solution,           \* solver.Value(occ['start']) per occ_id
    result,             \* the value returned to the caller
    generated_timetable,  \* st.session_state.generated_timetable
    sqlite_db_path,       \* st.session_state.sqlite_db_path
    last_error            \* st.session_state.last_error

inputs == <<working_days, courses, teachers, sections, allow_free>>
locals == <<slot_names, slot_time, slot_to_day, processed_courses,
            occ_metadata, start_at, model, status, solution>>
session == <<generated_timetable, sqlite_db_path, last_error>>
vars == <<working_days, courses, teachers, sections, allow_free, pc,
          slot_names, slot_time, slot_to_day, processed_courses,
          occ_metadata, start_at, model, status, solution, result,
          generated_timetable, sqlite_db_path, last_error>>

\* ------------------------------------------------------------------ inputs
\* Start hours of a working day: a morning start and one that puts the
\* skipped lunch hour inside the day.
StartHours == {9, 11}

Monday(s, n) == [day |-> "Monday", start_hr |-> s, total_hours |-> n]
Tuesday == [day |-> "Tuesday", start_hr |-> 9, total_hours |-> 1]

\* The working-day lists of a call: none, Monday alone, Monday and Tuesday.
Calendars ==
    {<<>>}
    \cup {<<Monday(s, n)>> : s \in StartHours, n \in 1..MaxHours}
    \cup {<<Monday(s, n), Tuesday>> : s \in StartHours, n \in 1..MaxHours}

\* One entry of constraints['working_days'].
WorkingDay(d, s, n) == [day |-> d, start_hr |-> s, total_hours |-> n]
\* Start hours of a second working day: before, next to and on the lunch hour.
SecondDayStarts == {8, 11, 12}
SecondDayHours == {1, 2, 5}
\* Every working day the form can produce, alone or followed by a second day.
FormCalendars ==
    {<<WorkingDay("Monday", s, n)>> :
        s \in MIN_START_HR..MAX_START_HR, n \in 1..MAX_TOTAL_HOURS}
    \cup {<<WorkingDay("Monday", s, n), WorkingDay("Tuesday", s2, n2)>> :
            s \in SecondDayStarts, n \in SecondDayHours,
            s2 \in SecondDayStarts, n2 \in SecondDayHours}

Window(a, b) == [start_hr |-> a, end_hr |-> b]
TeacherNames == {"T1", "T2"}
\* The teacher maps of a call.  A teacher missing from the map gets the
\* engine's default window.
TeacherMaps ==
    { [t \in {"T1"} |-> Window(9, 17)],
      [t \in TeacherNames |-> IF t = "T1" THEN Window(9, 10) ELSE Window(11, 14)] }

Sec(n, r) == [name |-> n, room |-> r]
\* The section maps of a call: one year registered (the other years fall
\* back to the default section "A"), or two sections registered in one year
\* and the other years registered without any section.
SectionMaps ==
    { [y \in {"Year1"} |-> <<Sec("A", "R1")>>],
      [y \in Range(YearList) |->
          IF y = "Year1" THEN <<Sec("A", "R1"), Sec("B", "R2")>> ELSE <<>>] }

\* (lectures, duration) of a course.
Shapes == {<<1, 1>>, <<2, 1>>, <<1, 2>>}
Subjects == <<"Math", "Physics", "Chemistry">>

\* (section, teacher) of a course: one teacher in both sections, and two
\* teachers in one section.
Placements == {<<"A", "T1">>, <<"B", "T1">>, <<"B", "T2">>}

\* A section map with every year registered and a single section in all:
\* section "B" of the course form's choices is then unregistered.
OneSectionMap ==
    [y \in Range(YearList) |-> IF y = "Year1" THEN <<Sec("A", "R1")>> ELSE <<>>]

CourseChoices ==
    { [year |-> "Year1", section |-> pl[1], teacher |-> pl[2],
       lectures |-> sh[1], duration |-> sh[2]] :
         pl \in Placements, sh \in Shapes }

\* The i-th course of a call is named after the i-th subject.
WithSubjects(cs) ==
    [i \in 1..Len(cs) |->
       [subject |-> Subjects[((i - 1) % Len(Subjects)) + 1],
        year |-> cs[i].year, section |-> cs[i].section, teacher |-> cs[i].teacher,
        lectures |-> cs[i].lectures, duration |-> cs[i].duration]]

CourseLists == {WithSubjects(cs) : cs \in SeqsUpTo(CourseChoices, MaxCourses)}

NoResult == [tag |-> "pending"]
\* None in a field of the session.
None == [tag |-> "none"]
\* initialize_session_state, for the three fields the generate handler writes.
SessionStart ==
    /\ generated_timetable = None
    /\ sqlite_db_path = None
    /\ last_error = None
\* cp_model.CpModel() before any constraint is added.
EmptyModel == [no_overlap |-> {}, teacher_excl |-> {}, section_excl |-> {}]

Init ==
    /\ working_days \in Calendars
    /\ courses \in CourseLists
    /\ teachers \in TeacherMaps
    /\ sections \in SectionMaps
    /\ allow_free \in BOOLEAN
    /\ pc = "start"
    /\ slot_names = <<>>
    /\ slot_time = <<>>
    /\ slot_to_day = <<>>
    /\ processed_courses = <<>>
    /\ occ_metadata = <<>>
    /\ start_at = {}
    /\ model = EmptyModel
    /\ status = "NOT_RUN"
    /\ solution = <<>>
    /\ result = NoResult
    /\ SessionStart

\* ---------------------------------------------------------- error messages
ErrNoInput == <<"No constraints or courses provided.">>
ErrNoDays == <<"No working days configured.">>
ErrNoSlots(c) ==
    <<"No feasible slots for ", c.subject, " (Year ", c.year, ", Section ",
      c.section, ").">>
ErrNoTimetable ==
    <<"No valid timetable found. Try adjusting constraints or reducing conflicts.">>
Failure(msg) == [tag |-> "error", error |-> msg]

\* ------------------------------------------------------------ get_time_slots
day_abbreviations(day) ==
    CASE day = "Monday" -> "M"
      [] day = "Tuesday" -> "T"
      [] day = "Wednesday" -> "W"
      [] day = "Thursday" -> "Th"
      [] day = "Friday" -> "F"
      [] day = "Saturday" -> "Sa"
      [] day = "Sunday" -> "Su"
      [] OTHER -> day

\* str.lower() on the day names the engine meets.
Lower(day) ==
    CASE day = "Monday" -> "monday"
      [] day = "Tuesday" -> "tuesday"
      [] day = "Wednesday" -> "wednesday"
      [] day = "Thursday" -> "thursday"
      [] day = "Friday" -> "friday"
      [] day = "Saturday" -> "saturday"
      [] day = "Sunday" -> "sunday"
      [] OTHER -> day

\* The lunch hour is not skipped.
SkipLunchNever(start) == start

\* The lunch hour is skipped but uses up one of the day's slots.
RECURSIVE DaySlotsLunchConsumes(_, _, _, _)
DaySlotsLunchConsumes(day, start, hours, j) ==
    IF j > hours THEN <<>>
    ELSE IF start = LUNCH_HOUR
    THEN DaySlotsLunchConsumes(day, start + 1, hours, j + 1)
    ELSE << [name |-> <<day_abbreviations(day), j>>, time |-> start, day |-> Lower(day)] >>
         \o DaySlotsLunchConsumes(day, start + 1, hours, j + 1)

\* The hour bumped past lunch for the label only: the loop goes on from the
\* unbumped hour.
RECURSIVE DaySlotsHourRepeats(_, _, _, _)
DaySlotsHourRepeats(day, start, hours, j) ==
    IF j > hours THEN <<>>
    ELSE << [name |-> <<day_abbreviations(day), j>>,
             time |-> IF start = LUNCH_HOUR THEN start + 1 ELSE start,
             day |-> Lower(day)] >>
         \o DaySlotsHourRepeats(day, start + 1, hours, j + 1)

\* while start == 12: start += 1
SkipLunch(start) == IF start = LUNCH_HOUR THEN start + 1 ELSE start

\* The inner loop of get_time_slots: the slots of one day, j counting from 1.
RECURSIVE DaySlots(_, _, _, _)
DaySlots(day, start, hours, j) ==
    IF j > hours THEN <<>>
    ELSE LET h == SkipLunch(start)
         IN  << [name |-> <<day_abbreviations(day), j>>, time |-> h, day |-> Lower(day)] >>
             \o DaySlots(day, h + 1, hours, j + 1)

\* The outer loop: the slots of all days, in declaration order.
get_time_slots(days) ==
    Flatten([i \in 1..Len(days) |->
               DaySlots(days[i].day, days[i].start_hr, days[i].total_hours, 1)])

\* slot_to_day as the dictionary the loop leaves: a later slot of the same
\* name overwrites an earlier one.
SlotToDay(slots) ==
    [nm \in {slots[i].name : i \in DOMAIN slots} |->
       slots[Max({i \in DOMAIN slots : slots[i].name = nm})].day]

\* ---------------------------------------------------------- demand expander
\* teachers.get(teacher, {}) with the defaults of start_hr and end_hr.
TeacherWindow(tmap, t) ==
    IF t \in DOMAIN tmap
    THEN [start_hr |-> tmap[t].start_hr, end_hr |-> tmap[t].end_hr]
    ELSE [start_hr |-> DEFAULT_START_HR, end_hr |-> DEFAULT_END_HR]

\* The loop that fills processed_courses from the courses argument.
ProcessCourses(cs, tmap) ==
    [i \in 1..Len(cs) |->
       [subject |-> cs[i].subject, year |-> cs[i].year, section |-> cs[i].section,
        teacher |-> cs[i].teacher, lectures |-> cs[i].lectures,
        duration |-> cs[i].duration,
        start_hr |-> TeacherWindow(tmap, cs[i].teacher).start_hr,
        end_hr |-> TeacherWindow(tmap, cs[i].teacher).end_hr]]

\* The key built from the teacher in place of the section name.
SectionKeyByTeacher(o) == <<o.year, o.teacher>>

\* f"{year}_{section}": the years are the four fixed names, which hold no
\* underscore, so the string determines the pair and the pair stands for it.
SectionKey(o) == <<o.year, o.section>>

\* section_requirements.get(key, 0) after the accumulation loop.
section_requirements(pcs, key) ==
    SumSeq([i \in 1..Len(pcs) |->
              IF SectionKey(pcs[i]) = key THEN pcs[i].lectures * pcs[i].duration ELSE 0])

\* sections.get(year, {'A': {}}), as the list of the year's sections.
YearSections(secs, year) ==
    IF year \in DOMAIN secs THEN secs[year] ELSE DefaultYearSections

\* The padding count one short of the remaining capacity.
FreeNeededOneShort(num_slots, section_used) == num_slots - section_used - 1

\* free_needed = num_slots - section_used
FreeNeeded(num_slots, section_used) == num_slots - section_used

FreeCourse(year, section_name, free_needed) ==
    [subject |-> "Free", year |-> year, section |-> section_name, teacher |-> "None",
     lectures |-> free_needed, duration |-> 1,
     start_hr |-> FREE_START_HR, end_hr |-> FREE_END_HR]

\* The "Add free periods" loops: the idle courses, in the order appended.
FreeCourses(pcs, secs, num_slots) ==
    Flatten([yi \in 1..Len(YearList) |->
      LET ys == YearSections(secs, YearList[yi])
      IN  Flatten([si \in 1..Len(ys) |->
            LET used == section_requirements(pcs, <<YearList[yi], ys[si].name>>)
            IN  IF used < num_slots
                THEN << FreeCourse(YearList[yi], ys[si].name, FreeNeeded(num_slots, used)) >>
                ELSE <<>>])])

\* processed_courses as it stands when the occurrences are created.
ExpandedCourses(cs, tmap, secs, free, num_slots) ==
    LET pcs == ProcessCourses(cs, tmap)
    IN  IF free THEN pcs \o FreeCourses(pcs, secs, num_slots) ELSE pcs

\* --------------------------------------------------------- domain calculator
\* The window test with the latest hour taken as a usable hour.
InWindowClosedEnd(h, course) == h >= course.start_hr /\ h <= course.end_hr

\* slot_time[t] < course['start_hr'] or slot_time[t] >= course['end_hr'], negated.
InWindow(h, course) == h >= course.start_hr /\ h < course.end_hr

\* The start indexes kept when the comparison of day labels is left out.
AllowedValsAcrossDays(course, names, time, to_day) ==
    LET num_slots == Len(names)
        dur == course.duration
    IN  { s \in 0..(num_slots - 1) :
            LET end_idx == s + dur - 1
            IN  /\ ~(end_idx >= num_slots)
                /\ \A t \in s..end_idx :
                      At(time, t) >= course.start_hr /\ At(time, t) < course.end_hr }

\* The start indexes kept when only the first slot is held against the window.
AllowedValsWindowAtStart(course, names, time, to_day) ==
    LET num_slots == Len(names)
        dur == course.duration
    IN  { s \in 0..(num_slots - 1) :
            LET end_idx == s + dur - 1
            IN  /\ ~(end_idx >= num_slots)
                /\ to_day[At(names, s)] = to_day[At(names, end_idx)]
                /\ At(time, s) >= course.start_hr /\ At(time, s) < course.end_hr }

\* allowed_vals of one course: the start indexes the loop keeps.
AllowedVals(course, names, time, to_day) ==
    LET num_slots == Len(names)
        dur == course.duration
    IN  { s \in 0..(num_slots - 1) :
            LET end_idx == s + dur - 1
            IN  /\ ~(end_idx >= num_slots)
                /\ to_day[At(names, s)] = to_day[At(names, end_idx)]
                /\ \A t \in s..end_idx : InWindow(At(time, t), course) }

\* The early return taken only for a course with more than one lecture.
RejectsSeveralLectures(course, names, time, to_day) ==
    /\ \A s \in 0..(Len(names) - 1) :
          \/ s + course.duration - 1 >= Len(names)
          \/ to_day[At(names, s)] # to_day[At(names, s + course.duration - 1)]
          \/ \E t \in s..(s + course.duration - 1) :
                At(time, t) < course.start_hr \/ At(time, t) >= course.end_hr
    /\ course.lectures > 1

\* if not allowed_vals and course['lectures'] > 0: return {'error': ...}
Rejects(course, names, time, to_day) ==
    AllowedVals(course, names, time, to_day) = {} /\ course.lectures > 0

\* Index of the first course at which the creation loop returns the error,
\* 0 when it runs to its end.
FirstInfeasible(pcs, names, time, to_day) ==
    LET bad == {i \in 1..Len(pcs) : Rejects(pcs[i], names, time, to_day)}
    IN  IF bad = {} THEN 0 ELSE Min(bad)

\* occ_metadata after the creation loop: `lectures` occurrences per course,
\* occ_id counting from 0; `allowed` is the domain of the start variable.
Occurrences(pcs, names, time, to_day) ==
    LET per == Flatten([i \in 1..Len(pcs) |->
                 [k \in 1..pcs[i].lectures |->
                    [subject |-> pcs[i].subject, year |-> pcs[i].year,
                     section |-> pcs[i].section, teacher |-> pcs[i].teacher,
                     duration |-> pcs[i].duration,
                     allowed |-> AllowedVals(pcs[i], names, time, to_day)]]])
    IN  [n \in 1..Len(per) |->
           [occ_id |-> n - 1, subject |-> per[n].subject, year |-> per[n].year,
            section |-> per[n].section, teacher |-> per[n].teacher,
            duration |-> per[n].duration, allowed |-> per[n].allowed]]

\* The keys of start_at: one boolean per occurrence and allowed start.
StartAtKeys(occs) ==
    UNION { {<<occs[n].occ_id, s>> : s \in occs[n].allowed} : n \in DOMAIN occs }

\* ---------------------------------------------------- constraint model builder
\* not (end1 <= s2 or end2 <= s1), with end = s + dur.
Overlap(s1, dur1, s2, dur2) == ~(s1 + dur1 <= s2 \/ s2 + dur2 <= s1)

\* The exclusions model.Add(start_at[..] + start_at[..] <= 1) posts for the
\* occurrence pairs <<i, j>> of `pairs`: one per pair of start indexes that
\* are keys of start_at and whose intervals overlap.
PairExclusions(occs, keys, pairs) ==
    UNION { { << <<occs[q[1]].occ_id, p[1]>>, <<occs[q[2]].occ_id, p[2]>> >> :
                p \in { r \in occs[q[1]].allowed \X occs[q[2]].allowed :
                          /\ <<occs[q[1]].occ_id, r[1]>> \in keys
                          /\ <<occs[q[2]].occ_id, r[2]>> \in keys
                          /\ Overlap(r[1], occs[q[1]].duration,
                                     r[2], occs[q[2]].duration) } } :
            q \in pairs }

\* The pairs i < j of positions in occ_metadata.
OrderedPairs(occs) == { q \in (DOMAIN occs) \X (DOMAIN occs) : q[1] < q[2] }

\* Teacher exclusions posted for equal start indexes only, durations ignored.
TeacherConflictEqualStarts(occs, keys) ==
    UNION { { << <<occs[i].occ_id, s>>, <<occs[j].occ_id, s>> >> :
                s \in { v \in occs[i].allowed \cap occs[j].allowed :
                          <<occs[i].occ_id, v>> \in keys /\ <<occs[j].occ_id, v>> \in keys } } :
            <<i, j>> \in { q \in (DOMAIN occs) \X (DOMAIN occs) :
                             q[1] < q[2] /\ occs[q[1]].teacher = occs[q[2]].teacher } }

\* occ.get('teacher', 'Unknown'): the key the occurrences are grouped by.
TeacherOf(o) == o.teacher

\* The teacher lists split by section as well: pairs of one teacher in one
\* section only.
TeacherPairsWithinSection(occs) ==
    { q \in OrderedPairs(occs) :
        /\ TeacherOf(occs[q[1]]) = TeacherOf(occs[q[2]])
        /\ SectionKey(occs[q[1]]) = SectionKey(occs[q[2]]) }

\* The pairs (i, j), i before j, of one teacher_occurrences list.
TeacherPairs(occs) ==
    { q \in OrderedPairs(occs) : TeacherOf(occs[q[1]]) = TeacherOf(occs[q[2]]) }
apply_teacher_conflict_constraint(occs, keys) ==
    PairExclusions(occs, keys, TeacherPairs(occs))

\* The pairs (i, j), i before j, of one section_occurrences list.
SectionPairs(occs) ==
    { q \in OrderedPairs(occs) : SectionKey(occs[q[1]]) = SectionKey(occs[q[2]]) }
\* Section exclusions posted for equal start indexes only, durations ignored.
SectionConflictEqualStarts(occs, keys) ==
    UNION { { << <<occs[q[1]].occ_id, v>>, <<occs[q[2]].occ_id, v>> >> :
                v \in { w \in occs[q[1]].allowed \cap occs[q[2]].allowed :
                          <<occs[q[1]].occ_id, w>> \in keys
                            /\ <<occs[q[2]].occ_id, w>> \in keys } } :
            q \in SectionPairs(occs) }

apply_section_constraint(occs, keys) ==
    PairExclusions(occs, keys, SectionPairs(occs))

\* section_intervals: per section key the occurrences whose intervals are
\* handed to one model.AddNoOverlap.
section_intervals(occs) ==
    { {occs[n].occ_id : n \in {m \in DOMAIN occs : SectionKey(occs[m]) = k}} :
        k \in {SectionKey(occs[n]) : n \in DOMAIN occs} }

\* The model after "Apply constraints".
BuildModel(occs, keys) ==
    [no_overlap |-> section_intervals(occs),
     teacher_excl |-> apply_teacher_conflict_constraint(occs, keys),
     section_excl |-> apply_section_constraint(occs, keys)]

\* --------------------------------------------------------------- the solver
\* AddNoOverlap on two intervals [s, s + dur) of one group.
IntervalsDisjoint(s1, dur1, s2, dur2) == s1 + dur1 <= s2 \/ s2 + dur2 <= s1

\* Occurrence n may start at s beside the starts chosen for occurrences
\* 1..Len(partial): no posted constraint is violated.
Compatible(occs, mdl, partial, n, s) ==
    \A m \in 1..Len(partial) :
       /\ << <<occs[m].occ_id, partial[m]>>, <<occs[n].occ_id, s>> >> \notin mdl.teacher_excl
       /\ << <<occs[m].occ_id, partial[m]>>, <<occs[n].occ_id, s>> >> \notin mdl.section_excl
       /\ (\E g \in mdl.no_overlap : occs[m].occ_id \in g /\ occs[n].occ_id \in g)
            => IntervalsDisjoint(partial[m], occs[m].duration, s, occs[n].duration)

\* All assignments of the start variables (one value of its domain each)
\* that satisfy the model and extend `partial`.
RECURSIVE Extensions(_, _, _)
Extensions(occs, mdl, partial) ==
    IF Len(partial) = Len(occs) THEN {partial}
    ELSE LET n == Len(partial) + 1
         IN  UNION { Extensions(occs, mdl, Append(partial, s)) :
                       s \in {v \in occs[n].allowed : Compatible(occs, mdl, partial, n, v)} }

Solutions(occs, mdl) == Extensions(occs, mdl, <<>>)

\* ---------------------------------------------------------- result assembler
\* f"{h:02d}:00" for 0 <= h < 100, as its two digits.
TimeStr(h) == <<h \div 10, h % 10>>
\* The clock hour a time string denotes.
HourOf(ts) == ts[1] * 10 + ts[2]
\* Python's < on two such strings.
StrLess(a, b) == a[1] < b[1] \/ (a[1] = b[1] /\ a[2] < b[2])

\* list.sort(key=lambda x: x['start_time']): a stable sort.
RECURSIVE InsertByStart(_, _)
InsertByStart(sorted, e) ==
    IF sorted = <<>> THEN <<e>>
    ELSE IF StrLess(e.start_time, Head(sorted).start_time)
         THEN <<e>> \o sorted
         ELSE <<Head(sorted)>> \o InsertByStart(Tail(sorted), e)

RECURSIVE SortPrefix(_, _)
SortPrefix(es, n) ==
    IF n = 0 THEN <<>> ELSE InsertByStart(SortPrefix(es, n - 1), es[n])

\* The buckets returned in the order the entries were appended.
SortByStartSkipped(es) == es

SortByStart(es) == SortPrefix(es, Len(es))

\* sections[year][section].get('room', '') when the section is registered.
RoomOf(secs, year, section) ==
    IF year \in DOMAIN secs /\ \E i \in DOMAIN secs[year] : secs[year][i].name = section
    THEN secs[year][CHOOSE i \in DOMAIN secs[year] : secs[year][i].name = section].room
    ELSE ""

\* The entry with its end taken from the clock hour of the last slot used.
EntryEndAfterLastSlot(occ, start_idx, names, time, secs) ==
    [slot |-> At(names, start_idx), subject |-> occ.subject, teacher |-> occ.teacher,
     section |-> occ.section, room |-> RoomOf(secs, occ.year, occ.section),
     start_time |-> TimeStr(At(time, start_idx)),
     end_time |-> TimeStr(At(time, start_idx + occ.duration - 1) + 1)]

\* The dictionary appended for one occurrence bound to start_idx.
Entry(occ, start_idx, names, time, secs) ==
    [slot |-> At(names, start_idx), subject |-> occ.subject, teacher |-> occ.teacher,
     section |-> occ.section, room |-> RoomOf(secs, occ.year, occ.section),
     start_time |-> TimeStr(At(time, start_idx)),
     end_time |-> TimeStr(At(time, start_idx) + occ.duration)]

\* if year in response_data and section in response_data[year]
Reported(secs, occ) ==
    /\ occ.year \in Range(YearList)
    /\ \E i \in DOMAIN YearSections(secs, occ.year) :
          YearSections(secs, occ.year)[i].name = occ.section

\* The loop over occ_metadata: what each occurrence appends, and where.
Appends(occs, sol, names, time, to_day, secs) ==
    [n \in DOMAIN occs |->
       [year |-> occs[n].year, section |-> occs[n].section,
        day |-> to_day[At(names, sol[n])],
        reported |-> Reported(secs, occs[n]),
        entry |-> Entry(occs[n], sol[n], names, time, secs)]]

\* The entries appended to one bucket by the first n occurrences, in order.
RECURSIVE BucketEntries(_, _, _, _, _)
BucketEntries(apps, n, year, section, day) ==
    IF n = 0 THEN <<>>
    ELSE LET before == BucketEntries(apps, n - 1, year, section, day)
         IN  IF /\ apps[n].reported
                /\ apps[n].year = year
                /\ apps[n].section = section
                /\ apps[n].day = day
             THEN Append(before, apps[n].entry)
             ELSE before

\* response_data as returned: year -> section -> day -> sorted entries.
BuildResponseData(occs, sol, names, time, to_day, secs) ==
    LET apps == Appends(occs, sol, names, time, to_day, secs)
    IN  [year \in Range(YearList) |->
          [section \in {YearSections(secs, year)[i].name :
                          i \in DOMAIN YearSections(secs, year)} |->
             [day \in ResponseDays |->
                SortByStart(BucketEntries(apps, Len(apps), year, section, day))]]]

Schedule(data) == [tag |-> "schedule", data |-> data]

\* ------------------------------------------------------------------ actions
\* The early returns with the test of the working days left out.
CheckConfigCoursesOnly ==
    /\ pc = "start"
    /\ IF courses = <<>>
       THEN /\ result' = Failure(ErrNoInput)
            /\ pc' = "done"
       ELSE /\ result' = result
            /\ pc' = "prepare"
    /\ UNCHANGED <<session, inputs, locals>>

\* if not constraints or not courses / if not working_days: the early returns.
CheckConfig ==
    /\ pc = "start"
    /\ IF courses = <<>>
       THEN /\ result' = Failure(ErrNoInput)
            /\ pc' = "done"
       ELSE IF working_days = <<>>
       THEN /\ result' = Failure(ErrNoDays)
            /\ pc' = "done"
       ELSE /\ result' = result
            /\ pc' = "prepare"
    /\ UNCHANGED <<session, inputs, locals>>

\* The idle courses appended to the caller's course list as well.
PrepareInputPadsCourses ==
    /\ pc = "prepare"
    /\ LET slots == get_time_slots(working_days)
           pcs == ExpandedCourses(courses, teachers, sections, allow_free, Len(slots))
       IN  /\ slot_names' = [i \in DOMAIN slots |-> slots[i].name]
           /\ slot_time' = [i \in DOMAIN slots |-> slots[i].time]
           /\ slot_to_day' = SlotToDay(slots)
           /\ processed_courses' = pcs
           /\ courses' = courses \o
                 [i \in 1..(Len(pcs) - Len(courses)) |->
                    [subject |-> pcs[Len(courses) + i].subject,
                     year |-> pcs[Len(courses) + i].year,
                     section |-> pcs[Len(courses) + i].section,
                     teacher |-> pcs[Len(courses) + i].teacher,
                     lectures |-> pcs[Len(courses) + i].lectures,
                     duration |-> pcs[Len(courses) + i].duration]]
    /\ pc' = "occurrences"
    /\ UNCHANGED <<session, working_days, teachers, sections, allow_free,
                   occ_metadata, start_at, model, status, solution, result>>

\* The per-day dictionaries, processed_courses, the call of get_time_slots,
\* section_requirements and, if allow_free, the idle courses.
PrepareInput ==
    /\ pc = "prepare"
    /\ LET slots == get_time_slots(working_days)
       IN  /\ slot_names' = [i \in DOMAIN slots |-> slots[i].name]
           /\ slot_time' = [i \in DOMAIN slots |-> slots[i].time]
           /\ slot_to_day' = SlotToDay(slots)
           /\ processed_courses' =
                 ExpandedCourses(courses, teachers, sections, allow_free, Len(slots))
    /\ pc' = "occurrences"
    /\ UNCHANGED <<session, inputs, occ_metadata, start_at, model, status, solution, result>>

\* The "Create occurrences" loop, with its early return.
CreateOccurrences ==
    /\ pc = "occurrences"
    /\ \E bad \in {FirstInfeasible(processed_courses, slot_names, slot_time, slot_to_day)} :
       \E upto \in {IF bad = 0 THEN processed_courses
                    ELSE SubSeq(processed_courses, 1, bad - 1)} :
       \E occs \in {Occurrences(upto, slot_names, slot_time, slot_to_day)} :
           /\ occ_metadata' = occs
           /\ start_at' = StartAtKeys(occs)
           /\ IF bad = 0
              THEN /\ result' = result
                   /\ pc' = "constraints"
              ELSE /\ result' = Failure(ErrNoSlots(processed_courses[bad]))
                   /\ pc' = "done"
    /\ UNCHANGED <<session, inputs, slot_names, slot_time, slot_to_day, processed_courses,
                   model, status, solution>>

\* AddNoOverlap per section and the two pairwise constraint builders.
ApplyConstraints ==
    /\ pc = "constraints"
    /\ model' = BuildModel(occ_metadata, start_at)
    /\ pc' = "solve"
    /\ UNCHANGED <<session, inputs, slot_names, slot_time, slot_to_day, processed_courses,
                   occ_metadata, start_at, status, solution, result>>

\* solver.Solve runs to an answer.  With an assignment (any one that
\* satisfies the model) the response is built from it, sorted and returned;
\* with a proof that there is none the error is returned.
Solve ==
    /\ pc = "solve"
    /\ LET sols == Solutions(occ_metadata, model)
       IN  IF sols = {}
           THEN /\ status' = "INFEASIBLE"
                /\ solution' = solution
                /\ result' = Failure(ErrNoTimetable)
           ELSE /\ status' = "OPTIMAL"
                /\ \E sol \in sols :
                      /\ solution' = sol
                      /\ result' = Schedule(BuildResponseData(occ_metadata, sol,
                                      slot_names, slot_time, slot_to_day, sections))
    /\ pc' = "done"
    /\ UNCHANGED <<session, inputs, slot_names, slot_time, slot_to_day, processed_courses,
                   occ_metadata, start_at, model>>

\* The time limit is reported but the call goes on searching.
SolveTimeoutKeepsSearching ==
    /\ pc = "solve"
    /\ status' = "UNKNOWN"
    /\ result' = Failure(ErrNoTimetable)
    /\ pc' = "solve"
    /\ UNCHANGED <<session, inputs, slot_names, slot_time, slot_to_day, processed_courses,
                   occ_metadata, start_at, model, solution>>

\* max_time_in_seconds elapses before the search has an answer.
SolveTimeout ==
    /\ pc = "solve"
    /\ status' = "UNKNOWN"
    /\ result' = Failure(ErrNoTimetable)
    /\ pc' = "done"
    /\ UNCHANGED <<session, inputs, slot_names, slot_time, slot_to_day, processed_courses,
                   occ_metadata, start_at, model, solution>>

Next ==
    \/ CheckConfig
    \/ PrepareInput
    \/ CreateOccurrences
    \/ ApplyConstraints
    \/ Solve
    \/ SolveTimeout

Spec == Init /\ [][Next]_vars

\* The calls that exercise the calendar: every working day of the form, one
\* course, run up to the end of get_time_slots.
FormInit ==
    /\ working_days \in FormCalendars
    /\ courses \in {cs \in CourseLists : Len(cs) = 1}
    /\ teachers \in TeacherMaps
    /\ sections \in SectionMaps
    /\ allow_free \in BOOLEAN
    /\ pc = "start"
    /\ slot_names = <<>>
    /\ slot_time = <<>>
    /\ slot_to_day = <<>>
    /\ processed_courses = <<>>
    /\ occ_metadata = <<>>
    /\ start_at = {}
    /\ model = EmptyModel
    /\ status = "NOT_RUN"
    /\ solution = <<>>
    /\ result = NoResult
    /\ SessionStart

\* One call that runs on: the body of the function is straight-line code
\* around loops over finite lists, so each phase that can run does run, and
\* solver.Solve returns at the latest when max_time_in_seconds has passed,
\* so a search that has no answer yet is ended by the time limit.
FairInit ==
    /\ working_days \in Calendars
    /\ courses \in {cs \in CourseLists : Len(cs) <= 1}
    /\ teachers \in TeacherMaps
    /\ sections \in SectionMaps
    /\ allow_free \in BOOLEAN
    /\ pc = "start"
    /\ slot_names = <<>>
    /\ slot_time = <<>>
    /\ slot_to_day = <<>>
    /\ processed_courses = <<>>
    /\ occ_metadata = <<>>
    /\ start_at = {}
    /\ model = EmptyModel
    /\ status = "NOT_RUN"
    /\ solution = <<>>
    /\ result = NoResult
    /\ SessionStart

FairSpec ==
    /\ FairInit /\ [][Next]_vars
    /\ WF_vars(CheckConfig) /\ WF_vars(PrepareInput) /\ WF_vars(CreateOccurrences)
    /\ WF_vars(ApplyConstraints) /\ WF_vars(SolveTimeout)

\* The calls with padding on and one registered section.
PaddingInit ==
    /\ working_days \in Calendars
    /\ courses \in CourseLists
    /\ teachers \in TeacherMaps
    /\ sections = OneSectionMap
    /\ allow_free = TRUE
    /\ pc = "start"
    /\ slot_names = <<>>
    /\ slot_time = <<>>
    /\ slot_to_day = <<>>
    /\ processed_courses = <<>>
    /\ occ_metadata = <<>>
    /\ start_at = {}
    /\ model = EmptyModel
    /\ status = "NOT_RUN"
    /\ solution = <<>>
    /\ result = NoResult
    /\ SessionStart

PaddingSpec == PaddingInit /\ [][Next]_vars

CalendarNext ==
    \/ CheckConfig
    \/ PrepareInput

CalendarSpec == FormInit /\ [][CalendarNext]_vars

\* ------------------------------------------------------------- the session
\* A value held in a field of the session.
Some(v) == [tag |-> "some", value |-> v]

\* create_sqlite_database: the file at the fresh path it returns, told by the
\* timetable written into it.
Database(timetable_data) == [built_from |-> timetable_data]

\* The frame of a call before its first statement, and after its return.
NoFrame ==
    /\ slot_names' = <<>>
    /\ slot_time' = <<>>
    /\ slot_to_day' = <<>>
    /\ processed_courses' = <<>>
    /\ occ_metadata' = <<>>
    /\ start_at' = {}
    /\ model' = EmptyModel
    /\ status' = "NOT_RUN"
    /\ solution' = <<>>
    /\ result' = NoResult

\* The generate button: the handler calls the engine with the lists held in
\* the session and the value of the "Allow Free Periods" checkbox.
ClickGenerate ==
    /\ pc = "idle"
    /\ allow_free' \in BOOLEAN
    /\ pc' = "start"
    /\ UNCHANGED <<session, working_days, courses, teachers, sections, locals, result>>

\* The handler after the call has returned: a failure descriptor clears the
\* timetable and is kept as last_error; a schedule is kept and clears
\* last_error, and with the SQLite option the path of the new database is
\* kept unless its creation raised.  The frame of the call is gone.
StoreResult ==
    /\ pc = "done"
    /\ IF result.tag = "error"
       THEN /\ generated_timetable' = None
            /\ last_error' = Some(result.error)
            /\ sqlite_db_path' = sqlite_db_path
       ELSE /\ generated_timetable' = Some(result.data)
            /\ last_error' = None
            /\ \E generate_sqlite \in BOOLEAN, created \in BOOLEAN :
                  sqlite_db_path' = IF generate_sqlite /\ created
                                    THEN Some(Database(result.data))
                                    ELSE sqlite_db_path
    /\ NoFrame
    /\ pc' = "idle"
    /\ UNCHANGED inputs

\* The "Clear All Courses" button.
ClearAllCourses ==
    /\ pc = "idle"
    /\ courses' = <<>>
    /\ generated_timetable' = None
    /\ UNCHANGED <<working_days, teachers, sections, allow_free, pc, locals, result,
                   sqlite_db_path, last_error>>

\* A session with one working day, one registered section and at most one
\* course, before the first click.
SessionInit ==
    /\ working_days \in {<<>>} \cup {<<Monday(9, n)>> : n \in 1..MaxHours}
    /\ courses \in {cs \in CourseLists : Len(cs) <= 1}
    /\ teachers \in TeacherMaps
    /\ sections = OneSectionMap
    /\ allow_free = TRUE
    /\ pc = "idle"
    /\ slot_names = <<>>
    /\ slot_time = <<>>
    /\ slot_to_day = <<>>
    /\ processed_courses = <<>>
    /\ occ_metadata = <<>>
    /\ start_at = {}
    /\ model = EmptyModel
    /\ status = "NOT_RUN"
    /\ solution = <<>>
    /\ result = NoResult
    /\ SessionStart

SessionNext ==
    \/ ClickGenerate
    \/ CheckConfig
    \/ PrepareInput
    \/ CreateOccurrences
    \/ ApplyConstraints
    \/ Solve
    \/ SolveTimeout
    \/ StoreResult
    \/ ClearAllCourses

SessionSpec == SessionInit /\ [][SessionNext]_vars

\* ------------------------------------------------------- reading a result
\* The call has returned a schedule / a failure descriptor.
Returned == pc = "done" /\ result.tag = "schedule"
Failed == pc = "done" /\ result.tag = "error"

\* The places <<year, section, day, index>> of the entries of a schedule.
EntryPositions(data) ==
    UNION { UNION { UNION { { <<y, s, d, i>> : i \in DOMAIN data[y][s][d] } :
                            d \in DOMAIN data[y][s] } :
                    s \in DOMAIN data[y] } :
            y \in DOMAIN data }
EntryAt(data, p) == data[p[1]][p[2]][p[3]][p[4]]

StartHour(e) == HourOf(e.start_time)
EndHour(e) == HourOf(e.end_time)
\* Two entries' [start, end) clock intervals have an hour in common.
ClockOverlap(e1, e2) ==
    ~(EndHour(e1) <= StartHour(e2) \/ EndHour(e2) <= StartHour(e1))
\* An entry of an idle occurrence.
IsIdleEntry(e) == e.subject = "Free" /\ e.teacher = "None"
\* An idle occurrence.
IsIdle(o) == o.subject = "Free" /\ o.teacher = "None"

\* The day label of slot index t.
DayOfSlot(t) == slot_to_day[At(slot_names, t)]

\* Some assignment of allowed starts extends `partial` and satisfies mdl.
RECURSIVE HasExtension(_, _, _)
HasExtension(occs, mdl, partial) ==
    \/ Len(partial) = Len(occs)
    \/ \E s \in occs[Len(partial) + 1].allowed :
          /\ Compatible(occs, mdl, partial, Len(partial) + 1, s)
          /\ HasExtension(occs, mdl, Append(partial, s))

\* ------------------------------------------------------------------ claims

\* C1: in every returned schedule, two distinct entries with the same
\* teacher (in any years and sections; idle entries have no teacher) that
\* lie on the same day have [start, end) clock intervals that do not overlap.
C1_NoTeacherDoubleBooking ==
    Returned =>
      \A p, q \in EntryPositions(result.data) :
         (/\ p # q
          /\ p[3] = q[3]
          /\ ~IsIdleEntry(EntryAt(result.data, p))
          /\ EntryAt(result.data, p).teacher = EntryAt(result.data, q).teacher)
         => ~ClockOverlap(EntryAt(result.data, p), EntryAt(result.data, q))

\* A returned schedule in which one teacher has classes in two different
\* sections back to back on one day.
C1_Witness ==
    /\ Returned
    /\ \E p, q \in EntryPositions(result.data) :
          /\ p[2] # q[2]
          /\ p[3] = q[3]
          /\ EntryAt(result.data, p).teacher = EntryAt(result.data, q).teacher
          /\ ~IsIdleEntry(EntryAt(result.data, p))
          /\ EndHour(EntryAt(result.data, p)) = StartHour(EntryAt(result.data, q))

\* C2: in every returned schedule, two distinct entries of one (year,
\* section) that lie on the same day have [start, end) clock intervals that
\* do not overlap, whatever their teachers.
C2_NoSectionDoubleBooking ==
    Returned =>
      \A p, q \in EntryPositions(result.data) :
         (p # q /\ p[1] = q[1] /\ p[2] = q[2] /\ p[3] = q[3])
         => ~ClockOverlap(EntryAt(result.data, p), EntryAt(result.data, q))

\* A returned schedule in which one section has classes of two different
\* teachers back to back on one day.
C2_Witness ==
    /\ Returned
    /\ \E p, q \in EntryPositions(result.data) :
          /\ p[1] = q[1] /\ p[2] = q[2] /\ p[3] = q[3]
          /\ ~IsIdleEntry(EntryAt(result.data, p))
          /\ ~IsIdleEntry(EntryAt(result.data, q))
          /\ EntryAt(result.data, p).teacher # EntryAt(result.data, q).teacher
          /\ EndHour(EntryAt(result.data, p)) = StartHour(EntryAt(result.data, q))

\* Every section's demanded slots fit into the week.
DemandFits ==
    \A i \in DOMAIN courses :
       section_requirements(ProcessCourses(courses, teachers), SectionKey(courses[i]))
         <= Len(slot_names)

\* The call's courses alone (allow_free off) have a satisfying assignment.
SatisfiableWithoutPadding ==
    LET pcs == ProcessCourses(courses, teachers)
        occs == Occurrences(pcs, slot_names, slot_time, slot_to_day)
    IN  /\ FirstInfeasible(pcs, slot_names, slot_time, slot_to_day) = 0
        /\ HasExtension(occs, BuildModel(occs, StartAtKeys(occs)), <<>>)

\* C3: idle occurrences never constrain feasibility: when every section's
\* demand fits into the week and the courses alone can be scheduled, a call
\* with allow_free on is not answered "no timetable" by a solver that ran
\* to its end.
C3_IdleNeverConstrains ==
    (pc = "done" /\ allow_free /\ DemandFits /\ SatisfiableWithoutPadding)
      => status # "INFEASIBLE"

\* C3, second half: no exclusion is posted between idle occurrences of
\* different sections.
C3_IdleOccurrencesIndependent ==
    \A c \in model.teacher_excl \cup model.section_excl :
       \A m, n \in DOMAIN occ_metadata :
          (/\ occ_metadata[m].occ_id = c[1][1]
           /\ occ_metadata[n].occ_id = c[2][1]
           /\ IsIdle(occ_metadata[m])
           /\ IsIdle(occ_metadata[n]))
          => SectionKey(occ_metadata[m]) = SectionKey(occ_metadata[n])

\* C4: a call ends with a failure descriptor and no schedule, or with a
\* schedule in which every occurrence is exactly one entry of the bucket of
\* its own year, section and day.
C4_AllOrNothing ==
    pc = "done" =>
      \/ result.tag = "error"
      \/ /\ result.tag = "schedule"
         /\ \A n \in DOMAIN occ_metadata :
               LET occ == occ_metadata[n]
                   e == Entry(occ, solution[n], slot_names, slot_time, sections)
                   day == DayOfSlot(solution[n])
               IN  /\ occ.year \in DOMAIN result.data
                   /\ occ.section \in DOMAIN result.data[occ.year]
                   /\ Cardinality({ i \in DOMAIN result.data[occ.year][occ.section][day] :
                                      result.data[occ.year][occ.section][day][i] = e }) = 1

\* The entries of one (year, section) across the week, as durations in hours.
SectionEntries(data, y, s) == { p \in EntryPositions(data) : p[1] = y /\ p[2] = s }

RECURSIVE SumHours(_, _)
SumHours(data, ps) ==
    IF ps = {} THEN 0
    ELSE LET p == CHOOSE x \in ps : TRUE
         IN  (EndHour(EntryAt(data, p)) - StartHour(EntryAt(data, p)))
               + SumHours(data, ps \ {p})

\* C5 as stated: with padding on, every (year, section) of a returned
\* schedule has as many entries as the week has slots, also when the
\* section has courses of duration greater than 1.
C5_EntryCountEqualsSlots ==
    (Returned /\ allow_free) =>
      \A y \in DOMAIN result.data : \A s \in DOMAIN result.data[y] :
         Cardinality(SectionEntries(result.data, y, s)) = Len(slot_names)

\* C5 as amended: with padding on, the entries of every (year, section) of a
\* returned schedule last, summed over the week, as many hours as the week
\* has slots.
C5_SlotsCovered ==
    (Returned /\ allow_free) =>
      \A y \in DOMAIN result.data : \A s \in DOMAIN result.data[y] :
         SumHours(result.data, SectionEntries(result.data, y, s)) = Len(slot_names)

\* A padded schedule was returned in which a section holds a two-hour class
\* and an idle entry.
C5_Witness ==
    /\ Returned
    /\ allow_free
    /\ \E p, q \in EntryPositions(result.data) :
          /\ p[1] = q[1] /\ p[2] = q[2]
          /\ EndHour(EntryAt(result.data, p)) - StartHour(EntryAt(result.data, p)) = 2
          /\ IsIdleEntry(EntryAt(result.data, q))

\* C6: in every returned schedule, every non-idle entry starts no earlier
\* than its teacher's earliest hour and ends no later than the latest hour.
C6_AvailabilityContainment ==
    Returned =>
      \A p \in EntryPositions(result.data) :
         LET e == EntryAt(result.data, p)
             w == TeacherWindow(teachers, e.teacher)
         IN  ~IsIdleEntry(e) => (StartHour(e) >= w.start_hr /\ EndHour(e) <= w.end_hr)

\* A returned schedule with a class of a registered teacher whose window is
\* narrower than the day: the class fills the window to its last hour.
C6_Witness ==
    /\ Returned
    /\ \E p \in EntryPositions(result.data) :
          LET e == EntryAt(result.data, p)
          IN  /\ ~IsIdleEntry(e)
              /\ e.teacher \in DOMAIN teachers
              /\ EndHour(e) = teachers[e.teacher].end_hr
              /\ \E t \in 0..(Len(slot_names) - 1) :
                    /\ DayOfSlot(t) = p[3]
                    /\ At(slot_time, t) >= teachers[e.teacher].end_hr

\* C7: in every returned schedule, an occurrence of duration d bound to
\* start slot s has slots s..s+d-1 all existing and all of one day.
C7_DayContainment ==
    Returned =>
      \A n \in DOMAIN occ_metadata :
         LET s == solution[n]
             d == occ_metadata[n].duration
         IN  /\ s >= 0
             /\ s + d - 1 <= Len(slot_names) - 1
             /\ \A t \in s..(s + d - 1) : DayOfSlot(t) = DayOfSlot(s)

\* A schedule was returned for a week of two days with a two-slot occurrence.
C7_Witness ==
    /\ Returned
    /\ Len(working_days) = 2
    /\ \E n \in DOMAIN occ_metadata :
          /\ occ_metadata[n].duration = 2
          /\ solution[n] + 2 < Len(slot_names)

\* The descriptor returned when the solver proved that no assignment exists.
UnsatisfiableDescriptor == Failure(ErrNoTimetable)

\* C8: a call whose deadline elapsed returns a failure descriptor that
\* differs from the one returned for a proof of unsatisfiability.
C8_TimeoutDistinct ==
    (pc = "done" /\ status = "UNKNOWN") => result # UnsatisfiableDescriptor

\* Two occurrences that have a teacher share that teacher.
ShareTeacher(o1, o2) == ~IsIdle(o1) /\ ~IsIdle(o2) /\ o1.teacher = o2.teacher

\* The teacher- and section-exclusivity constraints of the occurrences.
ExclusivityModel(occs) ==
    [no_overlap |-> section_intervals(occs),
     teacher_excl |->
        PairExclusions(occs, StartAtKeys(occs),
                       { q \in OrderedPairs(occs) : ShareTeacher(occs[q[1]], occs[q[2]]) }),
     section_excl |-> PairExclusions(occs, StartAtKeys(occs), SectionPairs(occs))]

\* C9: whenever the solver's verdict is "unsatisfiable", no assignment of
\* starts from the occurrences' domains satisfies all teacher- and
\* section-exclusivity constraints.
C9_UnsatSound ==
    (pc = "done" /\ status = "INFEASIBLE")
      => ~HasExtension(occ_metadata, ExclusivityModel(occ_metadata), <<>>)

\* The occurrence creation loop has run.
DomainsChecked == pc \in {"constraints", "solve", "done"} /\ processed_courses # <<>>

\* The non-idle courses with at least one lecture and no legal start slot.
CoursesWithoutStart ==
    { i \in DOMAIN courses :
        /\ courses[i].lectures > 0
        /\ AllowedVals(processed_courses[i], slot_names, slot_time, slot_to_day) = {} }

\* C10: once the domains are computed, if a non-idle course with at least
\* one lecture has no legal start slot the call has failed with "No feasible
\* slots" naming the subject, year and section of such a course, before any
\* constraint was posted or the solver ran; and that error never names a
\* course that has a legal start slot.
C10_InfeasibleDomainPrecheck ==
    DomainsChecked =>
      /\ CoursesWithoutStart # {} =>
            /\ pc = "done"
            /\ status = "NOT_RUN"
            /\ model = EmptyModel
            /\ \E i \in CoursesWithoutStart : result = Failure(ErrNoSlots(courses[i]))
      /\ \A i \in DOMAIN processed_courses :
            (Failed /\ result = Failure(ErrNoSlots(processed_courses[i])))
            => AllowedVals(processed_courses[i], slot_names, slot_time, slot_to_day) = {}

\* A call failed with "No feasible slots" for a two-hour course whose
\* teacher's window is one hour wide, the solver not having run; an earlier
\* course of the call has a legal start slot.
C10_Witness ==
    /\ Failed
    /\ status = "NOT_RUN"
    /\ \E i \in CoursesWithoutStart :
          /\ i > 1
          /\ 1 \notin CoursesWithoutStart
          /\ result = Failure(ErrNoSlots(courses[i]))
          /\ courses[i].duration = 2
          /\ processed_courses[i].end_hr - processed_courses[i].start_hr = 1

\* The two descriptors of the configuration test.
ConfigErrors == {Failure(ErrNoInput), Failure(ErrNoDays)}
\* No slot, occurrence, constraint or solver run exists.
NothingBuilt ==
    /\ slot_names = <<>> /\ slot_time = <<>> /\ slot_to_day = <<>>
    /\ processed_courses = <<>> /\ occ_metadata = <<>> /\ start_at = {}
    /\ model = EmptyModel /\ status = "NOT_RUN" /\ solution = <<>>

\* C11: once the call has passed its first step, an empty working-day list
\* or an empty course list has made it return a configuration error with no
\* slot, occurrence or constraint built, and a configuration error is the
\* result in no other case.
C11_ConfigPrecheck ==
    pc # "start" =>
       /\ (courses = <<>> \/ working_days = <<>>) =>
             (Failed /\ result \in ConfigErrors /\ NothingBuilt)
       /\ result \in ConfigErrors => (courses = <<>> \/ working_days = <<>>)

\* A call with courses and no working day has returned the configuration
\* error with nothing built.
C11_Witness ==
    /\ Failed /\ result = Failure(ErrNoDays)
    /\ courses # <<>> /\ working_days = <<>> /\ NothingBuilt

\* The schedules the solve step can return from the current state, one per
\* assignment the solver may report.
SolveSchedules ==
    { BuildResponseData(occ_metadata, sol, slot_names, slot_time, slot_to_day,
                        sections) : sol \in Solutions(occ_metadata, model) }

\* C12: a call that has reached the solver can end with at most one
\* assignment and at most one schedule, so two calls on the same input
\* return the same assignment and the same schedule.
C12_Determinism ==
    pc = "solve" =>
       /\ Cardinality(Solutions(occ_metadata, model)) <= 1
       /\ Cardinality(SolveSchedules) <= 1

\* get_time_slots has run.
SlotsBuilt == pc \notin {"start", "prepare"}

\* C13: whatever the working days, their start hours and slot counts, no
\* slot of the calendar carries clock hour 12.
C13_NoLunchSlot ==
    SlotsBuilt => \A i \in DOMAIN slot_time : slot_time[i] # LUNCH_HOUR

\* A day that starts before 12 and runs past it has its slots on both sides
\* of the lunch hour; a second day starts on the lunch hour itself.
C13_Witness ==
    /\ SlotsBuilt
    /\ Len(working_days) = 2
    /\ working_days[1].start_hr < LUNCH_HOUR
    /\ working_days[2].start_hr = LUNCH_HOUR
    /\ \E i, k \in DOMAIN slot_time :
          /\ DayOfSlot(i - 1) = "monday" /\ DayOfSlot(k - 1) = "monday"
          /\ slot_time[i] = LUNCH_HOUR - 1 /\ slot_time[k] = LUNCH_HOUR + 1

\* The indexes (from 0) of the slots of working day d.
SlotsOfDay(d) ==
    { t \in 0..(Len(slot_names) - 1) : DayOfSlot(t) = Lower(d.day) }
\* The clock hour of the last slot of working day d.
LastHour(d) == At(slot_time, Max(SlotsOfDay(d)))
\* The skipped hour falls among the first total_hours hours of the day.
LunchInside(d) == LUNCH_HOUR \in d.start_hr..(d.start_hr + d.total_hours - 1)

\* C20: every working day with start hour h and n slots gets exactly n
\* slots, the last one labelled h+n if hour 12 lies in [h, h+n-1] and h+n-1
\* otherwise.
C20_SlotCount ==
    SlotsBuilt =>
       \A i \in DOMAIN working_days :
          LET d == working_days[i]
          IN  /\ Cardinality(SlotsOfDay(d)) = d.total_hours
              /\ LastHour(d) = IF LunchInside(d)
                               THEN d.start_hr + d.total_hours
                               ELSE d.start_hr + d.total_hours - 1

\* A calendar with one day around the lunch hour, ending an hour later, and
\* one day that ends before it.
C20_Witness ==
    /\ SlotsBuilt
    /\ Len(working_days) = 2
    /\ LunchInside(working_days[1]) /\ working_days[1].start_hr < LUNCH_HOUR
    /\ working_days[1].total_hours > 2
    /\ LastHour(working_days[1]) =
          working_days[1].start_hr + working_days[1].total_hours
    /\ ~LunchInside(working_days[2]) /\ working_days[2].total_hours > 1
    /\ LastHour(working_days[2]) =
          working_days[2].start_hr + working_days[2].total_hours - 1

\* The (year, section) pairs the courses of the call name.
CoursePairs == { <<courses[i].year, courses[i].section>> : i \in DOMAIN courses }
\* The slots the courses of pair k consume.
UsedSlots(k) ==
    SumSeq([i \in DOMAIN courses |->
              IF <<courses[i].year, courses[i].section>> = k
              THEN courses[i].lectures * courses[i].duration ELSE 0])
\* The entries of pair k in a schedule that may not hold the pair at all.
PairEntries(data, k) ==
    { p \in EntryPositions(data) : p[1] = k[1] /\ p[2] = k[2] }
\* The slot indexes (from 1) an entry occupies.
SlotsOfEntry(e) ==
    LET i == CHOOSE j \in DOMAIN slot_names : slot_names[j] = e.slot
    IN  i..(i + (EndHour(e) - StartHour(e)) - 1)

\* C14: in every schedule returned with padding on, a section whose courses
\* consume u slots of the T slots of the week, u < T, has exactly T - u idle
\* entries, and its entries occupy every slot of the week exactly once.
C14_PaddingCount ==
    (Returned /\ allow_free) =>
       \A k \in CoursePairs :
          UsedSlots(k) < Len(slot_names) =>
             /\ Cardinality({ p \in PairEntries(result.data, k) :
                                IsIdleEntry(EntryAt(result.data, p)) })
                  = Len(slot_names) - UsedSlots(k)
             /\ \A t \in DOMAIN slot_names :
                   Cardinality({ p \in PairEntries(result.data, k) :
                                   t \in SlotsOfEntry(EntryAt(result.data, p)) }) = 1

\* The same count for the sections the schedule holds.
C14_RegisteredPadded ==
    (Returned /\ allow_free) =>
       \A k \in CoursePairs :
          (k[2] \in DOMAIN result.data[k[1]] /\ UsedSlots(k) < Len(slot_names)) =>
             /\ Cardinality({ p \in PairEntries(result.data, k) :
                                IsIdleEntry(EntryAt(result.data, p)) })
                  = Len(slot_names) - UsedSlots(k)
             /\ \A t \in DOMAIN slot_names :
                   Cardinality({ p \in PairEntries(result.data, k) :
                                   t \in SlotsOfEntry(EntryAt(result.data, p)) }) = 1

\* The solver has been run and the call has returned.
SolverRan == pc = "done" /\ status # "NOT_RUN"
\* The teachers the courses of the call name.
TeachersOfCall == { courses[i].teacher : i \in DOMAIN courses }
\* The occurrences of teacher t, in order.
OccurrencesOf(t) ==
    LET Taught(o) == ~IsIdle(o) /\ o.teacher = t
    IN  SelectSeq(occ_metadata, Taught)
\* Pairwise exclusion of overlapping starts among all of occs, nothing else.
AllExclusive(occs) ==
    [no_overlap |-> {},
     teacher_excl |-> PairExclusions(occs, StartAtKeys(occs), OrderedPairs(occs)),
     section_excl |-> {}]
\* The occurrences of teacher t can all be placed, each at a start of its
\* domain, without two of them overlapping.
TeacherFits(t) == HasExtension(OccurrencesOf(t), AllExclusive(OccurrencesOf(t)), <<>>)

\* C15: when every course has a non-empty domain (the solver is reached) and
\* the occurrences of some teacher cannot all be placed without overlap in
\* their domains, the call returns the unsatisfiable descriptor and no
\* schedule.
C15_TeacherOverloadUnsat ==
    (SolverRan /\ \E t \in TeachersOfCall : ~TeacherFits(t))
       => (Failed /\ result = UnsatisfiableDescriptor)

\* Without padding, a teacher with one class in each of two sections and a
\* single slot for both: the solver proved the model infeasible and the call
\* failed.
C15_Witness ==
    /\ SolverRan /\ ~allow_free /\ status = "INFEASIBLE"
    /\ Failed /\ result = UnsatisfiableDescriptor
    /\ \E t \in TeachersOfCall :
          /\ ~TeacherFits(t)
          /\ Len(OccurrencesOf(t)) = 2
          /\ OccurrencesOf(t)[1].section # OccurrencesOf(t)[2].section
          /\ OccurrencesOf(t)[1].allowed = OccurrencesOf(t)[2].allowed
          /\ Cardinality(OccurrencesOf(t)[1].allowed) = 1

\* C16: with padding off and a single occurrence, the returned assignment
\* binds the occurrence to the smallest slot index of its domain, and the
\* schedule's one entry starts at that slot's clock hour.
C16_FirstFound ==
    (Returned /\ ~allow_free /\ Len(occ_metadata) = 1) =>
       LET first == Min(occ_metadata[1].allowed)
       IN  /\ solution[1] = first
           /\ \A p \in EntryPositions(result.data) :
                 /\ EntryAt(result.data, p).slot = At(slot_names, first)
                 /\ StartHour(EntryAt(result.data, p)) = At(slot_time, first)

\* The occurrences exist.
OccurrencesCreated == pc \notin {"start", "prepare", "occurrences"}
\* The availability window of an occurrence: its teacher's, the engine's
\* default for a teacher the map lacks, the whole day for an idle occurrence.
Earliest(o) ==
    IF IsIdle(o) THEN FREE_START_HR
    ELSE IF o.teacher \in DOMAIN teachers THEN teachers[o.teacher].start_hr
    ELSE DEFAULT_START_HR
Latest(o) ==
    IF IsIdle(o) THEN FREE_END_HR
    ELSE IF o.teacher \in DOMAIN teachers THEN teachers[o.teacher].end_hr
    ELSE DEFAULT_END_HR
ValidIndex(t) == t \in 0..(Len(slot_names) - 1)
\* The three conditions of a legal start s of occurrence o.
FitsCalendar(o, s) == ValidIndex(s) /\ ValidIndex(s + o.duration - 1)
FitsDay(o, s) == DayOfSlot(s) = DayOfSlot(s + o.duration - 1)
FitsWindow(o, s) ==
    \A t \in s..(s + o.duration - 1) :
       Earliest(o) <= At(slot_time, t) /\ At(slot_time, t) < Latest(o)
LegalStart(o, s) == FitsCalendar(o, s) /\ FitsDay(o, s) /\ FitsWindow(o, s)

\* C17: for every occurrence and every slot index s (and the indexes next to
\* the calendar), s is in the occurrence's domain exactly if s+d-1 is a
\* valid index, slots s and s+d-1 lie on the same day and every slot of
\* [s, s+d-1] has its clock hour in [earliest, latest) of the occurrence.
C17_DomainIff ==
    OccurrencesCreated =>
       \A n \in DOMAIN occ_metadata :
          \A s \in (-1)..Len(slot_names) :
             s \in occ_metadata[n].allowed <=> LegalStart(occ_metadata[n], s)

\* One occurrence of duration 2 has a start and is refused another one that
\* would run into the next day; one occurrence has a start and is refused a
\* slot outside its teacher's window.
C17_Witness ==
    /\ OccurrencesCreated
    /\ \E n, m \in DOMAIN occ_metadata :
          LET o == occ_metadata[n]
              q == occ_metadata[m]
          IN  /\ o.duration = 2 /\ o.allowed # {}
              /\ \E s \in 0..(Len(slot_names) - 1) :
                    FitsCalendar(o, s) /\ ~FitsDay(o, s) /\ s \notin o.allowed
              /\ ~IsIdle(q) /\ q.allowed # {}
              /\ \E s \in 0..(Len(slot_names) - 1) :
                    FitsCalendar(q, s) /\ FitsDay(q, s) /\ ~FitsWindow(q, s)
                      /\ s \notin q.allowed

\* "Apply constraints" has run.
ConstraintsApplied == pc = "solve" \/ SolverRan
\* The exclusions "occurrence i starts at s1" against "occurrence j starts
\* at s2" for the pairs of occurrences, i before j, that satisfy the given
\* relation, and the starts of their domains whose intervals overlap.
ExclusionsAmong(related) ==
    LET slots == 0..(Len(slot_names) - 1)
        quads == { q \in (DOMAIN occ_metadata) \X (DOMAIN occ_metadata) \X slots \X slots :
                     /\ q[1] < q[2]
                     /\ <<q[1], q[2]>> \in related
                     /\ q[3] \in occ_metadata[q[1]].allowed
                     /\ q[4] \in occ_metadata[q[2]].allowed
                     /\ ~(q[3] + occ_metadata[q[1]].duration <= q[4]
                            \/ q[4] + occ_metadata[q[2]].duration <= q[3]) }
    IN  { << <<occ_metadata[q[1]].occ_id, q[3]>>, <<occ_metadata[q[2]].occ_id, q[4]>> >> :
            q \in quads }
\* Two occurrences share a teacher (idle occurrences have none) or share
\* their (year, section).
ShareTeacherOrSection ==
    { q \in (DOMAIN occ_metadata) \X (DOMAIN occ_metadata) :
        \/ ShareTeacher(occ_metadata[q[1]], occ_metadata[q[2]])
        \/ <<occ_metadata[q[1]].year, occ_metadata[q[1]].section>>
             = <<occ_metadata[q[2]].year, occ_metadata[q[2]].section>> }
\* The same with the teacher field taken as it stands, 'None' included.
ShareTeacherFieldOrSection ==
    { q \in (DOMAIN occ_metadata) \X (DOMAIN occ_metadata) :
        \/ occ_metadata[q[1]].teacher = occ_metadata[q[2]].teacher
        \/ <<occ_metadata[q[1]].year, occ_metadata[q[1]].section>>
             = <<occ_metadata[q[2]].year, occ_metadata[q[2]].section>> }

\* C18: the exclusions the model holds are exactly those between two
\* distinct occurrences that share a teacher or a (year, section), for the
\* starts of their domains whose intervals overlap; none is posted for
\* starts that do not overlap, for occurrences sharing neither key, or for
\* an occurrence alone in its groups.
C18_ExclusionsExact ==
    ConstraintsApplied =>
       model.teacher_excl \cup model.section_excl = ExclusionsAmong(ShareTeacherOrSection)

\* What the builders post: the same, with the idle occurrences of all
\* sections sharing the teacher key 'None'.
C18_ExclusionsByKey ==
    ConstraintsApplied =>
       model.teacher_excl \cup model.section_excl
          = ExclusionsAmong(ShareTeacherFieldOrSection)

\* The (year, section) pairs registered in the section map.
MapPairs ==
    UNION { { <<y, sections[y][i].name>> : i \in DOMAIN sections[y] } :
            y \in DOMAIN sections }
\* The pairs known to the call: registered, or named by a course.
KnownPairs == MapPairs \cup CoursePairs
\* The idle occurrences of pair k.
IdleOccurrences(k) ==
    { n \in DOMAIN occ_metadata :
        IsIdle(occ_metadata[n]) /\ <<occ_metadata[n].year, occ_metadata[n].section>> = k }
\* Every pair an occurrence or the call can name.
AllPairs ==
    KnownPairs
    \cup { <<occ_metadata[n].year, occ_metadata[n].section>> : n \in DOMAIN occ_metadata }

\* C19: with padding on, once all occurrences exist, a known (year, section)
\* pair with used < T has exactly T - used idle occurrences, each of
\* duration 1; a known pair with used >= T has none; a pair neither in the
\* section map nor in any course has none.
C19_PaddingScope ==
    (allow_free /\ pc = "constraints") =>
       /\ \A k \in AllPairs :
             Cardinality(IdleOccurrences(k)) =
                IF k \in KnownPairs /\ UsedSlots(k) < Len(slot_names)
                THEN Len(slot_names) - UsedSlots(k)
                ELSE 0
       /\ \A n \in DOMAIN occ_metadata :
             IsIdle(occ_metadata[n]) => occ_metadata[n].duration = 1

\* The pairs the padding loop walks: the registered sections, and section
\* "A" of each of the four years the section map does not hold.
PaddedPairs ==
    UNION { { <<YearList[yi], YearSections(sections, YearList[yi])[si].name>> :
                si \in DOMAIN YearSections(sections, YearList[yi]) } :
            yi \in DOMAIN YearList }
\* What the loop emits: the same counts for the pairs it walks.
C19_PaddingOfWalkedPairs ==
    (allow_free /\ pc = "constraints") =>
       /\ \A k \in AllPairs \cup PaddedPairs :
             Cardinality(IdleOccurrences(k)) =
                IF k \in PaddedPairs /\ UsedSlots(k) < Len(slot_names)
                THEN Len(slot_names) - UsedSlots(k)
                ELSE 0
       /\ \A n \in DOMAIN occ_metadata :
             IsIdle(occ_metadata[n]) => occ_metadata[n].duration = 1

\* The position in working_days of the day slot index t belongs to.
DayPosition(t) ==
    CHOOSE i \in DOMAIN working_days : Lower(working_days[i].day) = DayOfSlot(t)

\* C21: the slots are indexed 0..N-1, one name and one clock hour each and
\* no name twice; the days' slots follow one another in the order the days
\* are declared, so each day's slots are one contiguous index range; from a
\* slot to the next one of the same day the clock hour grows by exactly 1,
\* and by 2 only from hour 11 to hour 13.
C21_TimeSlotInvariant ==
    SlotsBuilt =>
       /\ DOMAIN slot_time = DOMAIN slot_names
       /\ Len(slot_names) =
             SumSeq([i \in DOMAIN working_days |-> working_days[i].total_hours])
       /\ \A i, k \in DOMAIN slot_names : i # k => slot_names[i] # slot_names[k]
       /\ \A t \in 0..(Len(slot_names) - 1) :
             \E i \in DOMAIN working_days : Lower(working_days[i].day) = DayOfSlot(t)
       /\ \A t \in 0..(Len(slot_names) - 2) :
             /\ DayPosition(t) <= DayPosition(t + 1)
             /\ DayOfSlot(t) = DayOfSlot(t + 1) =>
                   At(slot_time, t + 1) =
                      IF At(slot_time, t) = LUNCH_HOUR - 1
                      THEN LUNCH_HOUR + 1
                      ELSE At(slot_time, t) + 1

\* Two days, the first with slots before and after the lunch hour: a step of
\* 1, the step of 2, and the index passing to the second day.
C21_Witness ==
    /\ SlotsBuilt
    /\ Len(working_days) = 2
    /\ \E t \in 0..(Len(slot_names) - 4) :
          /\ DayOfSlot(t) = "monday" /\ DayOfSlot(t + 2) = "monday"
          /\ DayOfSlot(t + 3) = "tuesday"
          /\ At(slot_time, t) = LUNCH_HOUR - 2
          /\ At(slot_time, t + 1) = LUNCH_HOUR - 1
          /\ At(slot_time, t + 2) = LUNCH_HOUR + 1

\* The entries a returned schedule holds for occurrence n.
EntriesOf(n) ==
    { p \in PairEntries(result.data, <<occ_metadata[n].year, occ_metadata[n].section>>) :
        /\ EntryAt(result.data, p).slot = At(slot_names, solution[n])
        /\ EntryAt(result.data, p).subject = occ_metadata[n].subject
        /\ EntryAt(result.data, p).teacher = occ_metadata[n].teacher }
\* Occurrence o is two slots long, s is labelled 11 and the next slot of the
\* same day 13, and the window of o holds both hours.
StraddlesLunch(o, s) ==
    /\ o.duration = 2
    /\ ValidIndex(s) /\ ValidIndex(s + 1)
    /\ At(slot_time, s) = LUNCH_HOUR - 1 /\ At(slot_time, s + 1) = LUNCH_HOUR + 1
    /\ DayOfSlot(s) = DayOfSlot(s + 1)
    /\ Earliest(o) <= LUNCH_HOUR - 1 /\ LUNCH_HOUR + 1 < Latest(o)
\* The schedule holds occurrence n (its section is one of the schedule's).
InSchedule(n) ==
    /\ occ_metadata[n].year \in DOMAIN result.data
    /\ occ_metadata[n].section \in DOMAIN result.data[occ_metadata[n].year]

\* C22: every start at a slot labelled 11 whose next slot is labelled 13 is
\* in the domain of a two-slot occurrence whose window holds both hours; in
\* every returned schedule the entries of an occurrence start at the clock
\* hour of its start slot and end duration hours later, so such an
\* occurrence started at 11 is reported as 11:00-13:00.
C22_EndTimeAndLunchStraddle ==
    /\ OccurrencesCreated =>
          \A n \in DOMAIN occ_metadata : \A s \in 0..(Len(slot_names) - 1) :
             StraddlesLunch(occ_metadata[n], s) => s \in occ_metadata[n].allowed
    /\ Returned =>
          \A n \in DOMAIN occ_metadata :
             InSchedule(n) =>
                /\ EntriesOf(n) # {}
                /\ \A p \in EntriesOf(n) :
                      /\ StartHour(EntryAt(result.data, p)) = At(slot_time, solution[n])
                      /\ EndHour(EntryAt(result.data, p))
                           = At(slot_time, solution[n]) + occ_metadata[n].duration
                      /\ EntryAt(result.data, p).end_time
                           = TimeStr(At(slot_time, solution[n]) + occ_metadata[n].duration)

\* A returned schedule holds a class of a teacher reported as 11:00-13:00
\* whose two slots are labelled 11 and 13.
C22_Witness ==
    /\ Returned
    /\ \E n \in DOMAIN occ_metadata :
          /\ ~IsIdle(occ_metadata[n]) /\ InSchedule(n)
          /\ StraddlesLunch(occ_metadata[n], solution[n])
          /\ \E p \in EntriesOf(n) :
                /\ EntryAt(result.data, p).start_time = <<1, 1>>
                /\ EntryAt(result.data, p).end_time = <<1, 3>>

\* The day keys of a section of the schedule.
WeekDays ==
    {"monday", "tuesday", "wednesday", "thursday", "friday", "saturday", "sunday"}

\* C27: in every returned schedule every (year, section) holds a bucket for
\* each of the seven days, empty when the day has no entry, and the entries
\* of a bucket are in ascending order of start clock time.
C27_ResultOrdering ==
    Returned =>
       \A y \in DOMAIN result.data : \A s \in DOMAIN result.data[y] :
          /\ DOMAIN result.data[y][s] = WeekDays
          /\ \A d \in WeekDays :
                LET bucket == result.data[y][s][d]
                IN  /\ bucket \in Seq({bucket[i] : i \in DOMAIN bucket})
                    /\ \A i, k \in DOMAIN bucket :
                          i < k => StartHour(bucket[i]) <= StartHour(bucket[k])

\* A returned schedule in which a later occurrence of a section was placed
\* before an earlier one on the same day, so that the bucket had to be
\* reordered, and in which another day's bucket of that section is empty.
C27_Witness ==
    /\ Returned
    /\ \E n, m \in DOMAIN occ_metadata :
          /\ n < m
          /\ InSchedule(n)
          /\ SectionKey(occ_metadata[n]) = SectionKey(occ_metadata[m])
          /\ DayOfSlot(solution[n]) = DayOfSlot(solution[m])
          /\ solution[n] > solution[m]
          /\ Len(result.data[occ_metadata[n].year][occ_metadata[n].section]
                   [DayOfSlot(solution[n])]) >= 2
          /\ result.data[occ_metadata[n].year][occ_metadata[n].section]["sunday"] = <<>>

\* The model with the interval constraints only / with the pairwise section
\* exclusions only.
IntervalEncoding ==
    [no_overlap |-> model.no_overlap, teacher_excl |-> {}, section_excl |-> {}]
PairwiseEncoding ==
    [no_overlap |-> {}, teacher_excl |-> {}, section_excl |-> model.section_excl]
\* Starts s1 of occurrence n and s2 of occurrence m are ruled out together by
\* an interval constraint / by a pairwise section exclusion.
RuledOutByIntervals(n, s1, m, s2) ==
    /\ \E g \in model.no_overlap :
          occ_metadata[n].occ_id \in g /\ occ_metadata[m].occ_id \in g
    /\ ~(s1 + occ_metadata[n].duration <= s2 \/ s2 + occ_metadata[m].duration <= s1)
RuledOutByPairs(n, s1, m, s2) ==
    << <<occ_metadata[n].occ_id, s1>>, <<occ_metadata[m].occ_id, s2>> >>
        \in model.section_excl

\* C29: when the model is handed to the solver, the assignments of starts
\* from the domains that satisfy the per-section interval no-overlap
\* constraints are exactly those that satisfy all pairwise section
\* exclusions, and the two encodings rule out the same pairs of starts.
C29_SectionEncodingsEquivalent ==
    pc = "solve" =>
       /\ \A n, m \in DOMAIN occ_metadata :
             n < m =>
                \A s1 \in occ_metadata[n].allowed : \A s2 \in occ_metadata[m].allowed :
                   RuledOutByIntervals(n, s1, m, s2) <=> RuledOutByPairs(n, s1, m, s2)
       /\ Solutions(occ_metadata, IntervalEncoding)
             = Solutions(occ_metadata, PairwiseEncoding)

\* A section with a two-slot and a one-slot occurrence: some pair of
\* different starts is ruled out, another pair is allowed, and some
\* assignment of the domains is refused by the encodings.
C29_Witness ==
    /\ pc = "solve"
    /\ \E n, m \in DOMAIN occ_metadata :
          /\ n < m
          /\ SectionKey(occ_metadata[n]) = SectionKey(occ_metadata[m])
          /\ occ_metadata[n].duration + occ_metadata[m].duration = 3
          /\ \E s1 \in occ_metadata[n].allowed : \E s2 \in occ_metadata[m].allowed :
                s1 # s2 /\ RuledOutByPairs(n, s1, m, s2)
          /\ \E s1 \in occ_metadata[n].allowed : \E s2 \in occ_metadata[m].allowed :
                ~RuledOutByPairs(n, s1, m, s2)
    /\ Solutions(occ_metadata, PairwiseEncoding) # {}

\* The four ways a call ends.
EndsWithAssignment ==
    /\ result.tag = "schedule" /\ status = "OPTIMAL"
    /\ Len(solution) = Len(occ_metadata)
    /\ \A n \in DOMAIN occ_metadata : solution[n] \in occ_metadata[n].allowed
EndsUnsatisfiable == result = Failure(ErrNoTimetable) /\ status = "INFEASIBLE"
EndsWithTimeout == result = Failure(ErrNoTimetable) /\ status = "UNKNOWN"
EndsInPrecheck ==
    /\ result.tag = "error" /\ status = "NOT_RUN"
    /\ \/ result \in ConfigErrors
       \/ \E i \in DOMAIN processed_courses :
             result = Failure(ErrNoSlots(processed_courses[i]))
OutcomeCount ==
    (IF EndsWithAssignment THEN 1 ELSE 0) + (IF EndsUnsatisfiable THEN 1 ELSE 0)
      + (IF EndsWithTimeout THEN 1 ELSE 0) + (IF EndsInPrecheck THEN 1 ELSE 0)

\* C25: every call eventually returns; when it has returned exactly one of
\* the four outcomes holds (a complete assignment, unsatisfiable, timeout,
\* a precheck error); and every step of the call is taken while no outcome
\* has been reached: none follows the outcome.
C25_Termination ==
    /\ <>(pc = "done")
    /\ [](pc = "done" => OutcomeCount = 1)
    /\ [](pc # "done" => result.tag = "pending")
    /\ [][result.tag = "pending"]_vars

\* A call whose model has a satisfying assignment has ended with the
\* timeout.
C25_Witness ==
    /\ pc = "done" /\ EndsWithTimeout
    /\ occ_metadata # <<>>
    /\ HasExtension(occ_metadata, model, <<>>)

\* What a call with these arguments can return, computed from the arguments
\* alone: the early returns, the error of the solver, or the response built
\* from one assignment that satisfies the model.
CallOutcomes(days, cs, tmap, secs, free) ==
    IF cs = <<>> THEN {Failure(ErrNoInput)}
    ELSE IF days = <<>> THEN {Failure(ErrNoDays)}
    ELSE LET slots == get_time_slots(days)
             names == [i \in DOMAIN slots |-> slots[i].name]
             time == [i \in DOMAIN slots |-> slots[i].time]
             to_day == SlotToDay(slots)
             pcs == ExpandedCourses(cs, tmap, secs, free, Len(slots))
             bad == FirstInfeasible(pcs, names, time, to_day)
             occs == Occurrences(pcs, names, time, to_day)
         IN  IF bad # 0 THEN {Failure(ErrNoSlots(pcs[bad]))}
             ELSE {Failure(ErrNoTimetable)} \cup
                  { Schedule(BuildResponseData(occs, sol, names, time, to_day, secs)) :
                      sol \in Solutions(occs, BuildModel(occs, StartAtKeys(occs))) }

\* A call is running or has just returned.
InCall == pc # "idle"

\* C28: while a call runs, the working days, the course list, the teacher
\* map and the section map it was given stay as they are, whatever the
\* outcome; and what a call returns is one of the outcomes its own arguments
\* allow, whatever calls the session has seen before.
C28_Statelessness ==
    /\ [][InCall => UNCHANGED <<working_days, courses, teachers, sections>>]_vars
    /\ [](pc = "done" =>
            result \in CallOutcomes(working_days, courses, teachers, sections, allow_free))
    /\ [](pc = "idle" => locals = <<<<>>, <<>>, <<>>, <<>>, <<>>, {}, EmptyModel, "NOT_RUN", <<>>>>)

\* A second call, after one that returned a schedule, has returned a schedule
\* as well.
C28_Witness ==
    /\ pc = "done"
    /\ result.tag = "schedule"
    /\ generated_timetable # None
    /\ courses # <<>>
    /\ allow_free

\* The session holds a timetable / an error / the path of a database.
HoldsTimetable == generated_timetable # None
HoldsError == last_error # None
HoldsPath == sqlite_db_path # None

\* C30 (first half): between two actions the session never holds both a
\* timetable and a last error.
C30_TimetableOrError == pc = "idle" => ~(HoldsTimetable /\ HoldsError)

\* C30: between two actions the session never holds both a timetable and a
\* last error, and a path it holds is the path of a database built from the
\* timetable it holds.
C30_SessionConsistency ==
    pc = "idle" =>
       /\ ~(HoldsTimetable /\ HoldsError)
       /\ HoldsPath =>
             /\ HoldsTimetable
             /\ sqlite_db_path.value = Database(generated_timetable.value)

\* The path of a database is held and no timetable is.
C30_PathWithoutTimetable == pc = "idle" /\ HoldsPath /\ ~HoldsTimetable

\* The path held belongs to a database built from another timetable than the
\* one held.
C30_PathOfReplacedTimetable ==
    /\ pc = "idle"
    /\ HoldsPath
    /\ HoldsTimetable
    /\ sqlite_db_path.value # Database(generated_timetable.value)
====
